---- MODULE Spec2Model ----
(***************************************************************************)
(* Connection and operation lifecycle of the eventstream RPC client        *)
(* (lib/eventstream_rpc.ts): RpcClient.connect / close / newStream /       *)
(* registerUnclosedOperation and OperationBase construction / activate /   *)
(* close, run on one JavaScript event loop.  A step of the model is one    *)
(* run-to-completion piece of code: a user call up to its first await, the *)
(* continuation of an await, a timer or setImmediate callback, or a        *)
(* transport event handler.                                                *)
(***************************************************************************)
EXTENDS Integers, Sequences, FiniteSets, TLC

(* ------------------------------ bounds --------------------------------- *)
MaxOps == 2
MaxActivations == 2

Ops == 1..MaxOps

(* ------------------- aws-crt eventstream vocabulary -------------------- *)
ConnectionAccepted == 1
TerminateStream == 2
UndefinedFlags == -1

MessageTypes == {"ConnectAck", "ApplicationMessage"}
FlagValues == {UndefinedFlags, 0, 1, 2, 3}

UndefinedMessage == [type |-> "undefined", flags |-> UndefinedFlags]
NoMessage == [type |-> "none", flags |-> UndefinedFlags]
Messages == [type : MessageTypes, flags : FlagValues] \cup {UndefinedMessage}

ErrorCodes == {0, 1}

(* bitwise AND of two naturals *)
RECURSIVE BitAnd(_, _)
BitAnd(a, b) ==
    IF a = 0 \/ b = 0 THEN 0
    ELSE (IF a % 2 = 1 /\ b % 2 = 1 THEN 1 ELSE 0) + 2 * BitAnd(a \div 2, b \div 2)

(* message.flags ?? 0 *)
FlagsOrZero(m) == IF m.flags = UndefinedFlags THEN 0 ELSE m.flags

(* variants of isValidConnack with a plausible slip *)
isValidConnackTypeOnly(message) ==
    message.type = "ConnectAck"

isValidConnackAnyFlag(message) ==
    IF message.type # "ConnectAck" THEN FALSE
    ELSE IF FlagsOrZero(message) = 0 THEN FALSE
    ELSE TRUE

isValidConnack(message) ==
    IF message.type # "ConnectAck" THEN FALSE
    ELSE IF BitAnd(FlagsOrZero(message), ConnectionAccepted) = 0 THEN FALSE
    ELSE TRUE

(* !connack || !RpcClient.isValidConnack(connack) *)
ConnackRejected(connack) ==
    connack = UndefinedMessage \/ ~isValidConnack(connack)

(* ------------------------------ errors --------------------------------- *)
createRpcError(type, description) ==
    [status |-> "rejected", type |-> type, description |-> description]

PendingPromise == [status |-> "pending", type |-> "", description |-> ""]
ResolvedPromise == [status |-> "resolved", type |-> "", description |-> ""]

(* a promise settles once: later resolve()/reject() calls are ignored *)
Settle(promise, outcome) ==
    IF promise.status = "pending" THEN outcome ELSE promise

NoReason == [code |-> 0, message |-> ""]
CrtErrorFromCode(code) == [code |-> code, message |-> ""]
CrtErrorFromMessage(message) == [code |-> 0, message |-> message]

(* calls that stop at their state check: connect() and activate() reject,
   close() returns *)
NoEarlyExit == "none"
ConnectRejected == "connect: ClientStateError"
ClientCloseReturned == "RpcClient.close: return"
OperationCloseReturned == "OperationBase.close: return"
ActivateRejected == "activate: ClientStateError"

(* --------------------------- immediate queue --------------------------- *)
Task(kind, op) == [kind |-> kind, op |-> op]
ClientObject == 0
ClientCloseTask == Task("clientClose", ClientObject)
EmitDisconnectionTask == Task("emitDisconnection", ClientObject)

VARIABLES
    state,                  \* RpcClient.state
    emitDisconnectOnClose,  \* RpcClient.emitDisconnectOnClose
    unclosedOperations,     \* RpcClient.unclosedOperations: [defined, ops (insertion order)]
    disconnectionReason,    \* RpcClient.disconnectionReason
    connectPc,              \* where the body of the first connect() is suspended
    connectPromise,         \* the promise returned by the first connect()
    connack,                \* the message once(PROTOCOL_MESSAGE) holds for the running body
    timer,                  \* the connect timer: "unset", "armed", "fired"
    listeners,              \* 'disconnection' listeners installed on the connection
    immediateQueue,         \* setImmediate callbacks, in scheduling order
    transportConnects,      \* calls of connection.connect()
    connectMessagesSent,    \* calls of connection.sendProtocolMessage()
    connectionCloses,       \* calls of connection.close()
    newStreamRequests,      \* calls of connection.newStream()
    disconnectEvents,       \* 'disconnection' events the transport has emitted
    disconnectionEmits,     \* reasons carried by emitted 'disconnection' notifications
    opState,                \* OperationBase.state, or "Unconstructed"
    emitEndedOnClose,       \* OperationBase.emitEndedOnClose
    janitor,                \* OperationBase.janitor: "undefined", or the state of its promise
    ctorResult,             \* outcome of the operation's constructor call
    activateInFlight,       \* stream.activate() requests whose body waits at await activatePromise
    activateResolved,       \* activate() calls that resolved
    streamCloses,           \* calls of stream.close() per operation
    terminateSends,         \* stream.sendMessage(TerminateStream) attempts
    closeRuns,              \* times the body of OperationBase.close() ran past its guard
    lastEarlyExit,          \* the latest call that stopped at its state check, and how
    endedEmits,             \* 'ended' notifications delivered per operation
    errorEmits              \* 'error' notifications delivered per operation

clientVars == <<state, emitDisconnectOnClose, unclosedOperations, disconnectionReason>>
connectVars == <<connectPc, connectPromise, connack, timer, listeners>>
countVars == <<transportConnects, connectMessagesSent, connectionCloses,
               newStreamRequests, disconnectEvents, disconnectionEmits>>
opVars == <<opState, emitEndedOnClose, janitor, ctorResult, closeRuns>>
callVars == <<lastEarlyExit>>
activateVars == <<activateInFlight, activateResolved>>
streamVars == <<streamCloses, terminateSends, endedEmits, errorEmits>>
vars == <<clientVars, connectVars, immediateQueue, countVars, opVars, activateVars,
          streamVars, callVars>>


(* f[1] + ... + f[n] *)
RECURSIVE Sum(_, _)
Sum(f, n) == IF n = 0 THEN 0 ELSE f[n] + Sum(f, n - 1)

(* ------------------------- operation registry -------------------------- *)
SeqToSet(s) == {s[i] : i \in 1..Len(s)}

RECURSIVE Without(_, _)
Without(s, o) ==
    IF s = <<>> THEN <<>>
    ELSE IF Head(s) = o THEN Without(Tail(s), o)
    ELSE <<Head(s)>> \o Without(Tail(s), o)

UndefinedRegistry == [defined |-> FALSE, ops |-> <<>>]

(* Set.add: insertion order is kept, a present element is not added again *)
SetAdd(registry, o) ==
    IF o \in SeqToSet(registry.ops) THEN registry
    ELSE [registry EXCEPT !.ops = Append(registry.ops, o)]

(* removeUnclosedOperation that deletes nothing *)
removeUnclosedOperationKeeps(registry, o) ==
    registry

removeUnclosedOperation(registry, o) ==
    IF registry.defined THEN [registry EXCEPT !.ops = Without(registry.ops, o)]
    ELSE registry

isConnected(st) == st = "Connected"

(* registerUnclosedOperation throws unless connected and the registry exists *)
registerThrows(st, registry) == ~isConnected(st) \/ ~registry.defined

(* newStream that only refuses before connect() *)
newStreamAfterNone(st, transportThrows) ==
    IF st = "None" THEN "ClientStateError"
    ELSE IF transportThrows THEN "InternalError"
    ELSE "ok"

(* outcome of newStream(): "ClientStateError", "InternalError" or "ok" *)
newStream(st, transportThrows) ==
    IF st # "Connected" THEN "ClientStateError"
    ELSE IF transportThrows THEN "InternalError"
    ELSE "ok"

(* ------------------------- OperationBase.close ------------------------- *)
(* The heap that close() reads and writes, as one record. *)
World(q, registry) ==
    [opState |-> opState, emitEndedOnClose |-> emitEndedOnClose, janitor |-> janitor,
     closeRuns |-> closeRuns,
     terminateSends |-> terminateSends, unclosedOperations |-> registry, queue |-> q]

(* the statement that delivers 'ended': scheduled for the next tick *)
ScheduleEnded(q, o) == Append(q, Task("emitEnded", o))

OperationBase_close(w, o, sendThrows) ==
    IF w.opState[o] = "Closed" THEN w
    ELSE
        LET q1 == IF w.emitEndedOnClose[o] THEN ScheduleEnded(w.queue, o) ELSE w.queue
            shouldTerminateStream == w.opState[o] = "Activated"
            q2 == IF shouldTerminateStream /\ sendThrows
                  THEN Append(q1, Task("emitError", o)) ELSE q1
        IN [opState |-> [w.opState EXCEPT ![o] = "Closed"],
            emitEndedOnClose |-> [w.emitEndedOnClose EXCEPT ![o] = FALSE],
            janitor |-> [w.janitor EXCEPT ![o] = "undefined"],
            closeRuns |-> [w.closeRuns EXCEPT ![o] = @ + 1],
            terminateSends |-> [w.terminateSends EXCEPT ![o] =
                                   IF shouldTerminateStream THEN @ + 1 ELSE @],
            unclosedOperations |-> removeUnclosedOperation(w.unclosedOperations, o),
            queue |-> Append(q2, Task("streamClose", o))]

(* a cascade over the live registry by position: each close() removes the
   element under the cursor, so the next one is stepped over *)
RECURSIVE CloseAllLive(_, _, _)
CloseAllLive(w, snapshot, throws) ==
    IF snapshot = <<>> THEN w
    ELSE CloseAllLive(OperationBase_close(w, Head(snapshot), Head(snapshot) \in throws),
                      IF Len(snapshot) >= 2 THEN Tail(Tail(snapshot)) ELSE <<>>, throws)

(* unclosedOperations.forEach(operation => operation.close()) on the snapshot *)
RECURSIVE CloseAll(_, _, _)
CloseAll(w, snapshot, throws) ==
    IF snapshot = <<>> THEN w
    ELSE CloseAll(OperationBase_close(w, Head(snapshot), Head(snapshot) \in throws),
                  Tail(snapshot), throws)

(* the operations close() would send a termination message for, whose
   stream.sendMessage may therefore throw *)
Terminable == {o \in Ops : opState[o] = "Activated"}

SendOutcomes(o) == IF o \in Terminable THEN BOOLEAN ELSE {FALSE}

(* --------------------------- RpcClient.close --------------------------- *)
(* close() without the check of emitDisconnectOnClose *)
RpcClient_closeAlwaysEmits(q, throws) ==
    IF state = "Closed"
    THEN /\ immediateQueue' = q
         /\ UNCHANGED <<clientVars, connectionCloses, opState, emitEndedOnClose, janitor,
                        closeRuns, terminateSends>>
    ELSE
        LET q1 == Append(q, EmitDisconnectionTask)
            w0 == World(q1, UndefinedRegistry)
            w1 == IF unclosedOperations.defined
                  THEN CloseAll(w0, unclosedOperations.ops, throws)
                  ELSE w0
        IN /\ emitDisconnectOnClose' = FALSE
           /\ disconnectionReason' =
                  IF disconnectionReason = NoReason
                  THEN CrtErrorFromMessage("User-initiated disconnect")
                  ELSE disconnectionReason
           /\ state' = "Closed"
           /\ unclosedOperations' = w1.unclosedOperations
           /\ opState' = w1.opState
           /\ emitEndedOnClose' = w1.emitEndedOnClose
           /\ janitor' = w1.janitor
           /\ closeRuns' = w1.closeRuns
           /\ terminateSends' = w1.terminateSends
           /\ immediateQueue' = w1.queue
           /\ connectionCloses' = connectionCloses + 1

(* close() that detaches the registry without closing its operations *)
RpcClient_closeNoCascade(q, throws) ==
    IF state = "Closed"
    THEN /\ immediateQueue' = q
         /\ UNCHANGED <<clientVars, connectionCloses, opState, emitEndedOnClose, janitor,
                        closeRuns, terminateSends>>
    ELSE
        LET q1 == IF emitDisconnectOnClose THEN Append(q, EmitDisconnectionTask) ELSE q
        IN /\ emitDisconnectOnClose' = FALSE
           /\ disconnectionReason' =
                  IF emitDisconnectOnClose /\ disconnectionReason = NoReason
                  THEN CrtErrorFromMessage("User-initiated disconnect")
                  ELSE disconnectionReason
           /\ state' = "Closed"
           /\ unclosedOperations' = UndefinedRegistry
           /\ immediateQueue' = q1
           /\ connectionCloses' = connectionCloses + 1
           /\ UNCHANGED <<opState, emitEndedOnClose, janitor, closeRuns, terminateSends>>

(* close() without the check of the Closed state *)
RpcClient_closeUnguarded(q, throws) ==
    LET q1 == IF emitDisconnectOnClose THEN Append(q, EmitDisconnectionTask) ELSE q
        w0 == World(q1, UndefinedRegistry)
        w1 == IF unclosedOperations.defined
              THEN CloseAll(w0, unclosedOperations.ops, throws)
              ELSE w0
    IN /\ emitDisconnectOnClose' = FALSE
       /\ disconnectionReason' =
              IF emitDisconnectOnClose /\ disconnectionReason = NoReason
              THEN CrtErrorFromMessage("User-initiated disconnect")
              ELSE disconnectionReason
       /\ state' = "Closed"
       /\ unclosedOperations' = w1.unclosedOperations
       /\ opState' = w1.opState
       /\ emitEndedOnClose' = w1.emitEndedOnClose
       /\ janitor' = w1.janitor
       /\ closeRuns' = w1.closeRuns
       /\ terminateSends' = w1.terminateSends
       /\ immediateQueue' = w1.queue
       /\ connectionCloses' = connectionCloses + 1

RpcClient_close(q, throws) ==
    IF state = "Closed"
    THEN /\ immediateQueue' = q
         /\ UNCHANGED <<clientVars, connectionCloses, opState, emitEndedOnClose, janitor,
                        closeRuns, terminateSends>>
    ELSE
        LET q1 == IF emitDisconnectOnClose THEN Append(q, EmitDisconnectionTask) ELSE q
            w0 == World(q1, UndefinedRegistry)
            w1 == IF unclosedOperations.defined
                  THEN CloseAll(w0, unclosedOperations.ops, throws)
                  ELSE w0
        IN /\ emitDisconnectOnClose' = FALSE
           /\ disconnectionReason' =
                  IF emitDisconnectOnClose /\ disconnectionReason = NoReason
                  THEN CrtErrorFromMessage("User-initiated disconnect")
                  ELSE disconnectionReason
           /\ state' = "Closed"
           /\ unclosedOperations' = w1.unclosedOperations
           /\ opState' = w1.opState
           /\ emitEndedOnClose' = w1.emitEndedOnClose
           /\ janitor' = w1.janitor
           /\ closeRuns' = w1.closeRuns
           /\ terminateSends' = w1.terminateSends
           /\ immediateQueue' = w1.queue
           /\ connectionCloses' = connectionCloses + 1

(* setImmediate(() => { this.close(); }) *)
ScheduleClose(q) == Append(q, ClientCloseTask)


(* ------------------------------- Init ---------------------------------- *)
Init ==
    /\ state = "None"
    /\ emitDisconnectOnClose = FALSE
    /\ unclosedOperations = [defined |-> TRUE, ops |-> <<>>]
    /\ disconnectionReason = NoReason
    /\ connectPc = "idle"
    /\ connectPromise = PendingPromise
    /\ connack = NoMessage
    /\ timer = "unset"
    /\ listeners = {}
    /\ immediateQueue = <<>>
    /\ transportConnects = 0
    /\ connectMessagesSent = 0
    /\ connectionCloses = 0
    /\ newStreamRequests = 0
    /\ disconnectEvents = 0
    /\ disconnectionEmits = <<>>
    /\ opState = [o \in Ops |-> "Unconstructed"]
    /\ emitEndedOnClose = [o \in Ops |-> FALSE]
    /\ janitor = [o \in Ops |-> "undefined"]
    /\ ctorResult = [o \in Ops |-> "none"]
    /\ activateInFlight = [o \in Ops |-> 0]
    /\ activateResolved = [o \in Ops |-> 0]
    /\ streamCloses = [o \in Ops |-> 0]
    /\ terminateSends = [o \in Ops |-> 0]
    /\ closeRuns = [o \in Ops |-> 0]
    /\ endedEmits = [o \in Ops |-> 0]
    /\ errorEmits = [o \in Ops |-> 0]
    /\ lastEarlyExit = NoEarlyExit

(* -------------------------- RpcClient.connect -------------------------- *)
(* ConnectStart that only refuses while a connection is being made or is up *)
ConnectStartReconnects ==
    IF state \in {"Connecting", "Connected"}
    THEN /\ lastEarlyExit' = ConnectRejected
         /\ UNCHANGED <<clientVars, connectVars, immediateQueue, transportConnects>>
    ELSE /\ timer' = "armed"
         /\ listeners' = listeners \cup {"onDisconnectWhileConnecting"}
         /\ state' = "Connecting"
         /\ connack' = NoMessage
         /\ transportConnects' = transportConnects + 1
         /\ connectPc' = "awaitConnect"
         /\ UNCHANGED <<emitDisconnectOnClose, unclosedOperations, disconnectionReason,
                        connectPromise, immediateQueue, lastEarlyExit>>

(* ConnectStart that does not install the handshake's disconnection listener *)
ConnectStartNoListener ==
    IF state # "None"
    THEN /\ lastEarlyExit' = ConnectRejected
         /\ UNCHANGED <<clientVars, connectVars, immediateQueue, transportConnects>>
    ELSE /\ timer' = "armed"
         /\ state' = "Connecting"
         /\ connack' = NoMessage
         /\ transportConnects' = transportConnects + 1
         /\ connectPc' = "awaitConnect"
         /\ UNCHANGED <<emitDisconnectOnClose, unclosedOperations, disconnectionReason,
                        connectPromise, immediateQueue, lastEarlyExit, listeners>>

(* lines 217-244: the call, up to the first await *)
ConnectStart ==
    IF state # "None"
    THEN /\ lastEarlyExit' = ConnectRejected
         /\ UNCHANGED <<clientVars, connectVars, immediateQueue, transportConnects>>
    ELSE /\ timer' = "armed"
         /\ listeners' = listeners \cup {"onDisconnectWhileConnecting"}
         /\ state' = "Connecting"
         /\ connack' = NoMessage
         /\ transportConnects' = transportConnects + 1
         /\ connectPc' = "awaitConnect"
         /\ UNCHANGED <<emitDisconnectOnClose, unclosedOperations, disconnectionReason,
                        connectPromise, immediateQueue, lastEarlyExit>>

(* a call of RpcClient.connect() *)
Connect ==
    /\ ConnectStart
    /\ UNCHANGED <<connectMessagesSent, connectionCloses, newStreamRequests,
                   disconnectEvents, disconnectionEmits, opVars, activateVars, streamVars>>

(* the timer callback without its deferred close *)
TimerFiresNoClose ==
    /\ timer = "armed"
    /\ state = "Connecting"
    /\ timer' = "fired"
    /\ state' = "Finished"
    /\ connectPromise' = Settle(connectPromise,
           createRpcError("NetworkError", "RpcClient.connect() timed out"))
    /\ UNCHANGED <<emitDisconnectOnClose, unclosedOperations, disconnectionReason,
                   connectPc, connack, listeners, countVars, opVars, activateVars,
                   streamVars, immediateQueue, callVars>>

(* lines 222-228: the setTimeout callback; in any other state it does nothing *)
TimerFires ==
    /\ timer = "armed"
    /\ state = "Connecting"
    /\ timer' = "fired"
    /\ state' = "Finished"
    /\ connectPromise' = Settle(connectPromise,
           createRpcError("NetworkError", "RpcClient.connect() timed out"))
    /\ immediateQueue' = ScheduleClose(immediateQueue)
    /\ UNCHANGED <<emitDisconnectOnClose, unclosedOperations, disconnectionReason,
                   connectPc, connack, listeners, countVars, opVars, activateVars,
                   streamVars, callVars>>

(* lines 264-269: the catch block *)
CatchBlock ==
    /\ state' = "Finished"
    /\ connectPromise' = Settle(connectPromise,
           createRpcError("InternalError", "Failed to establish eventstream RPC connection"))
    /\ immediateQueue' = ScheduleClose(immediateQueue)
    /\ connectPc' = "done"
    /\ connack' = NoMessage

(* lines 275-301: the body after the acknowledgement has been awaited *)
AfterConnack(message) ==
    /\ connectPc' = "done"
    /\ connack' = NoMessage
    /\ IF state # "Connecting"
       THEN UNCHANGED <<state, connectPromise, immediateQueue, listeners,
                        emitDisconnectOnClose>>
       ELSE IF ConnackRejected(message)
       THEN /\ state' = "Finished"
            /\ connectPromise' = Settle(connectPromise,
                   createRpcError("ProtocolError",
                       "Failed to establish eventstream RPC connection - invalid connack"))
            /\ immediateQueue' = ScheduleClose(immediateQueue)
            /\ UNCHANGED <<listeners, emitDisconnectOnClose>>
       ELSE /\ listeners' = (listeners \ {"onDisconnectWhileConnecting"})
                                \cup {"onDisconnect"}
            /\ emitDisconnectOnClose' = TRUE
            /\ state' = "Connected"
            /\ connectPromise' = Settle(connectPromise, ResolvedPromise)
            /\ UNCHANGED immediateQueue

(* lines 249-259: build the connect message, transform it if configured, send it *)
SendConnect ==
    /\ connectMessagesSent' = connectMessagesSent + 1
    /\ connectPc' = "awaitSend"

(* connection.connect() resolved: lines 246-257 *)
TransportConnectResolves(hasTransform) ==
    /\ connectPc = "awaitConnect"
    /\ IF hasTransform
       THEN connectPc' = "awaitTransform" /\ UNCHANGED connectMessagesSent
       ELSE SendConnect
    /\ UNCHANGED <<clientVars, connectPromise, connack, timer, listeners, immediateQueue,
                   transportConnects, connectionCloses,
                   newStreamRequests, disconnectEvents, disconnectionEmits, opVars,
                   activateVars, streamVars, callVars>>

(* config.connectTransform resolved: lines 254-257 *)
TransformResolves ==
    /\ connectPc = "awaitTransform"
    /\ SendConnect
    /\ UNCHANGED <<clientVars, connectPromise, connack, timer, listeners, immediateQueue,
                   transportConnects, connectionCloses,
                   newStreamRequests, disconnectEvents, disconnectionEmits, opVars,
                   activateVars, streamVars, callVars>>

(* sendProtocolMessage resolved: lines 257-263, then the body if the message is there *)
SendResolves ==
    /\ connectPc = "awaitSend"
    /\ IF connack # NoMessage
       THEN AfterConnack(connack)
       ELSE /\ connectPc' = "awaitConnack"
            /\ UNCHANGED <<state, connectPromise, immediateQueue, listeners,
                           emitDisconnectOnClose, connack>>
    /\ UNCHANGED <<unclosedOperations, disconnectionReason, timer, countVars,
                   opVars, activateVars, streamVars, callVars>>

(* the first PROTOCOL_MESSAGE event after once() was installed: lines 246, 262-263 *)
MessageArrives(message) ==
    /\ connectPc \in {"awaitTransform", "awaitSend", "awaitConnack"}
    /\ connack = NoMessage
    /\ IF connectPc = "awaitConnack"
       THEN AfterConnack(message)
       ELSE /\ connack' = message
            /\ UNCHANGED <<connectPc, state, connectPromise, immediateQueue, listeners,
                           emitDisconnectOnClose>>
    /\ UNCHANGED <<unclosedOperations, disconnectionReason, timer, countVars,
                   opVars, activateVars, streamVars, callVars>>

(* connect(), the transform, the send or once() threw or rejected: lines 264-269 *)
ConnectThrows ==
    /\ connectPc \in {"awaitConnect", "awaitTransform", "awaitSend", "awaitConnack"}
    /\ CatchBlock
    /\ UNCHANGED <<emitDisconnectOnClose, unclosedOperations, disconnectionReason,
                   timer, listeners, countVars, opVars, activateVars, streamVars, callVars>>

(* lines 230-236: the listener installed for the handshake *)
onDisconnectWhileConnecting(installed) ==
    IF installed /\ state = "Connecting"
    THEN /\ state' = "Finished"
         /\ connectPromise' = Settle(connectPromise,
                createRpcError("NetworkError",
                    "RpcClient.connect() failed - connection closed"))
         /\ immediateQueue' = ScheduleClose(immediateQueue)
         /\ UNCHANGED disconnectionReason
    ELSE UNCHANGED <<state, connectPromise, immediateQueue, disconnectionReason>>

(* the permanent listener without its deferred close *)
onDisconnectNoClose(errorCode) ==
    /\ disconnectionReason' =
           IF errorCode # 0 THEN CrtErrorFromCode(errorCode) ELSE disconnectionReason
    /\ UNCHANGED <<state, connectPromise, immediateQueue>>

(* lines 291-296: the listener installed once connected *)
onDisconnect(errorCode) ==
    /\ disconnectionReason' =
           IF errorCode # 0 THEN CrtErrorFromCode(errorCode) ELSE disconnectionReason
    /\ immediateQueue' = ScheduleClose(immediateQueue)
    /\ UNCHANGED <<state, connectPromise>>

(* the transport emits 'disconnection', once, at any time after it was asked to
   connect *)
TransportDisconnect(errorCode) ==
    /\ connectPc # "idle"
    /\ disconnectEvents = 0
    /\ disconnectEvents' = disconnectEvents + 1
    /\ IF "onDisconnect" \in listeners
       THEN onDisconnect(errorCode)
       ELSE onDisconnectWhileConnecting("onDisconnectWhileConnecting" \in listeners)
    /\ UNCHANGED <<emitDisconnectOnClose, unclosedOperations, connectPc, connack, timer,
                   listeners, transportConnects,
                   connectMessagesSent, connectionCloses, newStreamRequests,
                   disconnectionEmits, opVars, activateVars, streamCloses, terminateSends,
                   endedEmits, errorEmits, callVars>>


(* ----------------------------- user close ------------------------------ *)
(* a direct call of RpcClient.close() *)
UserClose ==
    /\ \E throws \in SUBSET Terminable : RpcClient_close(immediateQueue, throws)
    /\ lastEarlyExit' = IF state = "Closed" THEN ClientCloseReturned ELSE lastEarlyExit
    /\ UNCHANGED <<connectVars, transportConnects,
                   connectMessagesSent, newStreamRequests, disconnectEvents,
                   disconnectionEmits, ctorResult, activateVars, streamCloses,
                   endedEmits, errorEmits>>

(* ------------------------------ operations ----------------------------- *)
(* new OperationBase(config): lines 460-467; operations are numbered in the
   order in which they are constructed *)
NewOperation(o, transportThrows) ==
    /\ ctorResult[o] = "none"
    /\ \A p \in Ops : p < o => ctorResult[p] # "none"
    /\ LET stream == newStream(state, transportThrows)
       IN /\ newStreamRequests' =
                 IF stream = "ClientStateError" THEN newStreamRequests
                 ELSE newStreamRequests + 1
          /\ IF stream # "ok"
             THEN /\ ctorResult' = [ctorResult EXCEPT ![o] = stream]
                  /\ UNCHANGED <<opState, unclosedOperations>>
             ELSE IF registerThrows(state, unclosedOperations)
             THEN /\ ctorResult' = [ctorResult EXCEPT ![o] = "ClientStateError"]
                  /\ UNCHANGED <<opState, unclosedOperations>>
             ELSE /\ ctorResult' = [ctorResult EXCEPT ![o] = "ok"]
                  /\ opState' = [opState EXCEPT ![o] = "None"]
                  /\ unclosedOperations' = SetAdd(unclosedOperations, o)
    /\ UNCHANGED <<state, emitDisconnectOnClose, disconnectionReason, connectVars,
                   immediateQueue, transportConnects,
                   connectMessagesSent, connectionCloses, disconnectEvents,
                   disconnectionEmits, emitEndedOnClose, janitor, closeRuns, activateVars,
                   streamVars, callVars>>

(* a direct call of OperationBase.close(): lines 469-503 *)
OperationClose(o, sendThrows) ==
    /\ opState[o] # "Unconstructed"
    /\ lastEarlyExit' =
           IF opState[o] = "Closed" THEN OperationCloseReturned ELSE lastEarlyExit
    /\ LET w == OperationBase_close(World(immediateQueue, unclosedOperations), o, sendThrows)
       IN /\ opState' = w.opState
          /\ emitEndedOnClose' = w.emitEndedOnClose
          /\ janitor' = w.janitor
          /\ closeRuns' = w.closeRuns
          /\ terminateSends' = w.terminateSends
          /\ unclosedOperations' = w.unclosedOperations
          /\ immediateQueue' = w.queue
    /\ UNCHANGED <<state, emitDisconnectOnClose, disconnectionReason, connectVars,
                   countVars, ctorResult, activateVars, streamCloses, endedEmits,
                   errorEmits>>

(* OperationBase.activate(), up to await activatePromise: lines 505-522 *)
Activate(o) ==
    /\ opState[o] # "Unconstructed"
    /\ IF opState[o] # "None"
       THEN /\ lastEarlyExit' = ActivateRejected
            /\ UNCHANGED <<activateInFlight, janitor>>
       ELSE /\ Sum(activateInFlight, MaxOps) + Sum(activateResolved, MaxOps)
                  < MaxActivations
            /\ activateInFlight' = [activateInFlight EXCEPT ![o] = @ + 1]
            /\ janitor' = [janitor EXCEPT ![o] = "pending"]
            /\ UNCHANGED lastEarlyExit
    /\ UNCHANGED <<clientVars, connectVars, immediateQueue, countVars, opState,
                   emitEndedOnClose, ctorResult, closeRuns, activateResolved,
                   streamVars>>

(* the stream acknowledged the activation: lines 529-530 *)
ActivationSucceeds(o) ==
    /\ activateInFlight[o] > 0
    /\ activateInFlight' = [activateInFlight EXCEPT ![o] = @ - 1]
    /\ emitEndedOnClose' = [emitEndedOnClose EXCEPT ![o] = TRUE]
    /\ activateResolved' = [activateResolved EXCEPT ![o] = @ + 1]
    /\ UNCHANGED <<clientVars, connectVars, immediateQueue, countVars, opState,
                   janitor, ctorResult, closeRuns, streamVars, callVars>>

(* the stream rejected the activation: lines 523-527; bothFinished, and with
   it the janitor promise, rejects if the rejected request is the one the
   janitor was made for, which is certain only when no other request of the
   operation is or was in flight *)
ActivationFails(o) ==
    /\ activateInFlight[o] > 0
    /\ activateInFlight' = [activateInFlight EXCEPT ![o] = @ - 1]
    /\ \E latest \in BOOLEAN :
           /\ (activateInFlight[o] = 1 /\ activateResolved[o] = 0) => latest
           /\ janitor' = IF latest /\ janitor[o] = "pending"
                         THEN [janitor EXCEPT ![o] = "rejected"]
                         ELSE janitor
    /\ UNCHANGED <<clientVars, connectVars, immediateQueue, countVars, opState,
                   emitEndedOnClose, ctorResult, closeRuns, activateResolved,
                   streamVars, callVars>>

(* the stream emits STREAM_ENDED after its activation was acknowledged and
   before anyone closed the operation: lines 512, 518-519; endedPromise and
   activatePromise are then both fulfilled, so bothFinished and the janitor
   promise made from it by then() are fulfilled; then() was given no callback,
   so nothing else runs *)
StreamEnds(o) ==
    /\ janitor[o] = "pending"
    /\ activateResolved[o] >= 1
    /\ activateInFlight[o] = 0
    /\ janitor' = [janitor EXCEPT ![o] = "fulfilled"]
    /\ UNCHANGED <<clientVars, connectVars, immediateQueue, countVars, opState,
                   emitEndedOnClose, ctorResult, closeRuns, activateVars,
                   streamVars, callVars>>

(* --------------------------- setImmediate ------------------------------ *)
(* the event loop runs the oldest setImmediate callback *)
RunImmediate ==
    /\ immediateQueue # <<>>
    /\ LET task == Head(immediateQueue)
           rest == Tail(immediateQueue)
       IN \/ /\ task.kind = "clientClose"
             /\ \E throws \in SUBSET Terminable : RpcClient_close(rest, throws)
             /\ lastEarlyExit' =
                    IF state = "Closed" THEN ClientCloseReturned ELSE lastEarlyExit
             /\ UNCHANGED <<disconnectionEmits, streamCloses, endedEmits, errorEmits>>
          \/ /\ task.kind = "emitDisconnection"
             /\ UNCHANGED callVars
             /\ disconnectionEmits' = Append(disconnectionEmits, disconnectionReason)
             /\ immediateQueue' = rest
             /\ UNCHANGED <<clientVars, connectionCloses, opState, emitEndedOnClose, janitor,
                            closeRuns, terminateSends, streamCloses, endedEmits,
                            errorEmits>>
          \/ /\ task.kind = "emitEnded"
             /\ UNCHANGED callVars
             /\ endedEmits' = [endedEmits EXCEPT ![task.op] = @ + 1]
             /\ immediateQueue' = rest
             /\ UNCHANGED <<clientVars, connectionCloses, opState, emitEndedOnClose, janitor,
                            closeRuns, terminateSends, streamCloses, disconnectionEmits,
                            errorEmits>>
          \/ /\ task.kind = "emitError"
             /\ UNCHANGED callVars
             /\ errorEmits' = [errorEmits EXCEPT ![task.op] = @ + 1]
             /\ immediateQueue' = rest
             /\ UNCHANGED <<clientVars, connectionCloses, opState, emitEndedOnClose, janitor,
                            closeRuns, terminateSends, streamCloses, disconnectionEmits,
                            endedEmits>>
          \/ /\ task.kind = "streamClose"
             /\ UNCHANGED callVars
             /\ streamCloses' = [streamCloses EXCEPT ![task.op] = @ + 1]
             /\ immediateQueue' = rest
             /\ UNCHANGED <<clientVars, connectionCloses, opState, emitEndedOnClose, janitor,
                            closeRuns, terminateSends, disconnectionEmits, endedEmits,
                            errorEmits>>
    /\ UNCHANGED <<connectVars, transportConnects,
                   connectMessagesSent, newStreamRequests, disconnectEvents, ctorResult,
                   activateVars>>

(* ------------------------------- Next ---------------------------------- *)
Next ==
    \/ Connect
    \/ TimerFires
    \/ \E hasTransform \in BOOLEAN : TransportConnectResolves(hasTransform)
    \/ TransformResolves
    \/ SendResolves
    \/ \E message \in Messages : MessageArrives(message)
    \/ ConnectThrows
    \/ \E errorCode \in ErrorCodes : TransportDisconnect(errorCode)
    \/ UserClose
    \/ \E o \in Ops, transportThrows \in BOOLEAN : NewOperation(o, transportThrows)
    \/ \E o \in Ops : \E sendThrows \in SendOutcomes(o) : OperationClose(o, sendThrows)
    \/ \E o \in Ops : Activate(o)
    \/ \E o \in Ops : ActivationSucceeds(o)
    \/ \E o \in Ops : ActivationFails(o)
    \/ \E o \in Ops : StreamEnds(o)
    \/ RunImmediate

Spec == Init /\ [][Next]_vars

(* setImmediate callbacks always run *)
FairSpec == Spec /\ WF_vars(RunImmediate)


(* ============================== properties ============================= *)
connectTimedOut ==
    connectPromise = createRpcError("NetworkError", "RpcClient.connect() timed out")

connectLostConnection ==
    connectPromise = createRpcError("NetworkError",
                         "RpcClient.connect() failed - connection closed")

connectProtocolError ==
    connectPromise = createRpcError("ProtocolError",
                         "Failed to establish eventstream RPC connection - invalid connack")

(* the flag words in which the ConnectionAccepted bit is set *)
AcceptedFlags == {1, 3}
Accepting(message) == message.type = "ConnectAck" /\ message.flags \in AcceptedFlags

(* the step in which the body of connect() takes the acknowledgement `message` *)
TakesAck(message) ==
    \/ connectPc = "awaitSend" /\ connack = message /\ SendResolves
    \/ connectPc = "awaitConnack" /\ MessageArrives(message)

(* C1: a connect() call made while the state is not None is rejected with
   ClientStateError, leaves the client state unchanged and does nothing to
   the transport, the timer, the listeners or the immediate queue. *)
C1_ConnectOnlyOnce ==
    [][(Connect /\ state # "None") =>
          /\ lastEarlyExit' = ConnectRejected
          /\ UNCHANGED <<clientVars, connectVars, immediateQueue, countVars, opVars,
                         activateVars, streamVars>>]_vars

C1_Witness ==
    /\ lastEarlyExit = ConnectRejected
    /\ transportConnects = 1
    /\ state \in {"Connecting", "Connected"}

(* C2: when the timer fires while the client is Connecting, connect() is
   rejected with NetworkError, the state becomes Finished, and the client
   reaches Closed afterwards with no further call. *)
C2_TimeoutClosesClient ==
    /\ [][(timer = "armed" /\ timer' = "fired" /\ state = "Connecting") =>
             /\ connectPromise' = createRpcError("NetworkError",
                                      "RpcClient.connect() timed out")
             /\ state' = "Finished"]_vars
    /\ (connectTimedOut ~> state = "Closed")

C2_Witness ==
    /\ connectTimedOut
    /\ state = "Closed"
    /\ timer = "fired"

(* C3: a transport disconnection event while the client is Connecting moves
   the state to Finished, rejects connect() with NetworkError and schedules
   a deferred close. *)
C3_DisconnectWhileConnecting ==
    [][(disconnectEvents' = disconnectEvents + 1 /\ state = "Connecting") =>
          /\ state' = "Finished"
          /\ connectPromise' = createRpcError("NetworkError",
                                   "RpcClient.connect() failed - connection closed")
          /\ immediateQueue' = Append(immediateQueue, ClientCloseTask)]_vars

C3_Witness ==
    /\ connectLostConnection
    /\ disconnectEvents = 1

(* C4: an acknowledgement taken while the client is Connecting that is not a
   ConnectAck, or whose flags lack ConnectionAccepted (absent flags too),
   rejects connect() with ProtocolError, moves the state to Finished and
   schedules a deferred close; the state is never Connected afterwards. *)
C4_InvalidAckRejected ==
    /\ [][\A message \in Messages :
             (state = "Connecting" /\ ~Accepting(message) /\ TakesAck(message)) =>
                 /\ state' = "Finished"
                 /\ connectPromise' = createRpcError("ProtocolError",
                        "Failed to establish eventstream RPC connection - invalid connack")
                 /\ immediateQueue' = Append(immediateQueue, ClientCloseTask)]_vars
    /\ [][connectPromise.type = "ProtocolError" => state' # "Connected"]_vars

C4_Witness ==
    /\ connectProtocolError
    /\ state = "Closed"

(* C5: connect() resolves only in a step that takes a ConnectAck carrying
   ConnectionAccepted while the state is Connecting; that step makes the
   state Connected, and isConnected() holds only when connect() resolved. *)
C5_ResolveOnlyOnAcceptedAck ==
    /\ [][(connectPromise.status # "resolved" /\ connectPromise'.status = "resolved") =>
             /\ state = "Connecting"
             /\ isConnected(state')
             /\ \E message \in Messages : Accepting(message) /\ TakesAck(message)]_vars
    /\ [](isConnected(state) => connectPromise.status = "resolved")

C5_Witness ==
    /\ connectPromise.status = "resolved"
    /\ isConnected(state)


(* number of occurrences of task in the immediate queue *)
Pending(task) == Cardinality({i \in 1..Len(immediateQueue) : immediateQueue[i] = task})

(* C6: 'disconnection' is emitted at most once and only after connect()
   succeeded; once close() has run after a successful connect, exactly one
   'disconnection' notification has been scheduled or delivered. *)
C6_OneDisconnection ==
    LET produced == Len(disconnectionEmits) + Pending(EmitDisconnectionTask)
    IN /\ produced <= 1
       /\ produced >= 1 => connectPromise.status = "resolved"
       /\ (connectPromise.status = "resolved" /\ connectionCloses >= 1) => produced = 1

C6_Witness ==
    /\ connectPromise.status = "resolved"
    /\ connectionCloses >= 1
    /\ Len(disconnectionEmits) = 1
    /\ lastEarlyExit = ClientCloseReturned

(* C7: constructing an operation on a client that is not Connected fails
   with ClientStateError, requests no stream from the connection and leaves
   the registry and the operation untouched. *)
C7_NoOperationUnlessConnected ==
    [][\A o \in Ops :
          (ctorResult[o] = "none" /\ ctorResult'[o] # "none" /\ state # "Connected") =>
              /\ ctorResult'[o] = "ClientStateError"
              /\ UNCHANGED <<newStreamRequests, unclosedOperations, opState>>]_vars

C7_Witness ==
    /\ ctorResult[1] = "ClientStateError"
    /\ ctorResult[2] = "ClientStateError"
    /\ newStreamRequests = 0
    /\ state = "Closed"

(* everything but lastEarlyExit and the immediate queue *)
programVars == <<clientVars, connectVars, countVars, opVars, activateVars, streamVars>>

(* C8: a close() call on a client or an operation that is already Closed
   changes no state, schedules nothing and sends nothing. *)
C8_CloseIdempotent ==
    [][/\ (state = "Closed" /\ UserClose) => UNCHANGED <<programVars, immediateQueue>>
       /\ (state = "Closed" /\ immediateQueue # <<>> /\ RunImmediate
              /\ Head(immediateQueue) = ClientCloseTask) =>
              (UNCHANGED programVars /\ immediateQueue' = Tail(immediateQueue))
       /\ \A o \in Ops :
              (opState[o] = "Closed" /\ OperationClose(o, FALSE)) =>
                  UNCHANGED <<programVars, immediateQueue>>]_vars

C8_Witness ==
    /\ state = "Closed"
    /\ lastEarlyExit = OperationCloseReturned
    /\ connectionCloses = 1
    /\ \A o \in Ops : opState[o] = "Closed" /\ closeRuns[o] = 1

(* C9: a close() of a client that is not Closed closes every operation of
   the registry exactly once, leaves the other operations alone and detaches
   the registry; no operation's close() ever runs twice. *)
C9_CascadeClosesEachOnce ==
    [][connectionCloses' = connectionCloses + 1 =>
          /\ ~unclosedOperations'.defined
          /\ \A o \in Ops :
                 IF unclosedOperations.defined /\ o \in SeqToSet(unclosedOperations.ops)
                 THEN opState'[o] = "Closed" /\ closeRuns'[o] = closeRuns[o] + 1
                                            /\ closeRuns'[o] = 1
                 ELSE opState'[o] = opState[o] /\ closeRuns'[o] = closeRuns[o]]_vars

C9_Witness ==
    /\ state = "Closed"
    /\ Len(immediateQueue) >= 3
    /\ immediateQueue[1] = EmitDisconnectionTask
    /\ immediateQueue[2] = Task("streamClose", 1)
    /\ immediateQueue[3] = Task("streamClose", 2)


PendingIn(q, task) == Cardinality({i \in 1..Len(q) : q[i] = task})

(* the step is a call of close() on operation o: its body ran, or it returned
   at the Closed check *)
CloseCalled(o) ==
    \/ closeRuns'[o] = closeRuns[o] + 1
    \/ opState[o] = "Closed" /\ OperationClose(o, FALSE)

(* C10: after any close() call on an operation whose activate() has
   succeeded, exactly one 'ended' notification and exactly one stream close
   have been scheduled or delivered; an operation whose activation never
   succeeded delivers no 'ended'. *)
C10_OneEndedPerActivatedOperation ==
    /\ [][\A o \in Ops :
             (activateResolved[o] >= 1 /\ CloseCalled(o)) =>
                 /\ endedEmits'[o] + PendingIn(immediateQueue', Task("emitEnded", o)) = 1
                 /\ streamCloses'[o] + PendingIn(immediateQueue', Task("streamClose", o)) = 1
         ]_vars
    /\ [](\A o \in Ops : activateResolved[o] = 0 => endedEmits[o] = 0)

(* the activation of operation 1 succeeded on the already closed operation, a
   later close() returned at its Closed check, and no 'ended' was scheduled
   or delivered *)
C10_Witness ==
    /\ activateResolved[1] = 1
    /\ opState[1] = "Closed"
    /\ emitEndedOnClose[1]
    /\ lastEarlyExit = OperationCloseReturned
    /\ endedEmits[1] = 0
    /\ immediateQueue = <<>>
    /\ streamCloses[1] = 1

(* C11: once an activate() call on an operation has issued its activation
   request, every later activate() call on that operation is rejected with
   ClientStateError and issues no further request on the stream. *)
C11_ActivateOnlyOnce ==
    [][\A o \in Ops :
          (Activate(o) /\ activateInFlight[o] + activateResolved[o] >= 1) =>
              /\ lastEarlyExit' = ActivateRejected
              /\ UNCHANGED activateInFlight]_vars

(* two activation requests of operation 1 are waiting on its stream at once *)
C11_Witness ==
    /\ opState[1] = "None"
    /\ activateInFlight[1] = 2

(* position of a client state in the declaration order of enum ClientState *)
ClientStateOrder(st) ==
    CASE st = "None" -> 0
      [] st = "Connecting" -> 1
      [] st = "Connected" -> 2
      [] st = "Finished" -> 3
      [] st = "Closed" -> 4

(* C12: the client state only advances in the order None, Connecting,
   Connected, Finished, Closed; it never moves back, and once it is Closed
   it stays Closed. *)
C12_StateOnlyAdvances ==
    [][/\ ClientStateOrder(state') >= ClientStateOrder(state)
       /\ state = "Closed" => state' = "Closed"]_vars

(* the client has been closed, its connection close() included, and is
   Finished again *)
C12_Witness ==
    /\ state = "Finished"
    /\ connectionCloses = 1
    /\ connectPromise.type = "InternalError"

(* setImmediate callbacks always run and the connect timer always fires (its
   callback does nothing unless the state is Connecting) *)
TimerFairSpec == Spec /\ WF_vars(RunImmediate) /\ WF_vars(TimerFires)

(* a step of one of the paths of the handshake that can decide it *)
HandshakePathStep ==
    \/ TimerFires
    \/ ConnectThrows
    \/ SendResolves
    \/ \E message \in Messages : MessageArrives(message)

(* C13: a connect() call that started a handshake gets exactly one outcome:
   its promise, once settled, is never settled again; a handshake path taken
   when the state is no longer Connecting changes neither the state nor the
   promise and schedules nothing; and, the timer firing, the promise is
   eventually settled. *)
C13_ExactlyOneOutcome ==
    /\ [][connectPromise.status # "pending" => connectPromise' = connectPromise]_vars
    /\ [][(state # "Connecting" /\ HandshakePathStep) =>
             UNCHANGED <<state, connectPromise, immediateQueue>>]_vars
    /\ (connectPc # "idle" ~> connectPromise.status # "pending")

(* the client was closed during the handshake; the body of connect() waits for
   an acknowledgement and its promise is still pending with nothing scheduled *)
C13_Witness ==
    /\ state = "Closed"
    /\ connectPc = "awaitConnack"
    /\ connectPromise.status = "pending"
    /\ immediateQueue = <<>>
    /\ connectionCloses = 1

(* C14: disconnectionReason is assigned at most once, so it does not change
   once it is set, and in particular not between the close() that schedules
   the 'disconnection' notification and the delivery that reads it. *)
C14_ReasonAssignedOnce ==
    /\ [][disconnectionReason # NoReason =>
             disconnectionReason' = disconnectionReason]_vars
    /\ [][Pending(EmitDisconnectionTask) >= 1 =>
             disconnectionReason' = disconnectionReason]_vars

(* close() ran first and scheduled the notification with the default reason;
   the transport's disconnection came after it and replaced the reason before
   the delivery *)
C14_Witness ==
    /\ state = "Closed"
    /\ immediateQueue = <<EmitDisconnectionTask, ClientCloseTask>>
    /\ disconnectionReason = CrtErrorFromCode(1)

(* C15: a close() whose body runs on an operation with a succeeded activation
   attempts one termination message on the stream; on an operation that was
   never activated it attempts none; in both cases it schedules the stream's
   close. *)
C15_TerminateOnCloseWhenActivated ==
    [][\A o \in Ops :
          closeRuns'[o] = closeRuns[o] + 1 =>
              /\ activateResolved[o] >= 1 =>
                     terminateSends'[o] = terminateSends[o] + 1
              /\ (activateResolved[o] = 0 /\ activateInFlight[o] = 0) =>
                     terminateSends'[o] = terminateSends[o]
              /\ PendingIn(immediateQueue', Task("streamClose", o)) =
                     PendingIn(immediateQueue, Task("streamClose", o)) + 1]_vars

(* operation 1 was closed after its activation succeeded ('ended' was
   delivered) and no termination message was attempted *)
C15_Witness ==
    /\ opState[1] = "Closed"
    /\ activateResolved[1] = 1
    /\ endedEmits[1] = 1
    /\ streamCloses[1] = 1
    /\ terminateSends[1] = 0

(* operation o is in the client's registry of unclosed operations *)
Registered(o) ==
    unclosedOperations.defined /\ o \in SeqToSet(unclosedOperations.ops)

(* C16: once the stream of an activated operation has reported its end (the
   janitor promise is fulfilled), the operation eventually leaves the client's
   registry, whether or not anyone calls close(). *)
C16_JanitorReleasesEndedOperation ==
    \A o \in Ops : (janitor[o] = "fulfilled") ~> ~Registered(o)

(* the stream of operation 1 has ended after a succeeded activation; the
   client is still Connected, nothing is scheduled, and the operation is
   still registered *)
C16_Witness ==
    /\ janitor[1] = "fulfilled"
    /\ activateResolved[1] = 1
    /\ state = "Connected"
    /\ immediateQueue = <<>>
    /\ Registered(1)
    /\ opState[1] = "None"

DefaultReason == CrtErrorFromMessage("User-initiated disconnect")

(* C17: after connect() succeeded its result is never settled again; a
   transport disconnection on the Connected client leaves the state and the
   result alone, records the cause if its code is nonzero and schedules a
   deferred close; the reason then stays what it is, a 'disconnection'
   delivered after the event carries the transport's cause if there is one
   and the default reason otherwise, and the client reaches Closed with one
   notification delivered. *)
C17_DisconnectAfterConnect ==
    /\ [][connectPromise.status = "resolved" => connectPromise' = connectPromise]_vars
    /\ [][\A errorCode \in ErrorCodes :
             (state = "Connected" /\ TransportDisconnect(errorCode)) =>
                 /\ UNCHANGED <<state, connectPromise>>
                 /\ disconnectionReason' =
                        IF errorCode # 0 THEN CrtErrorFromCode(errorCode)
                        ELSE disconnectionReason
                 /\ immediateQueue' = Append(immediateQueue, ClientCloseTask)]_vars
    /\ [][disconnectEvents = 1 =>
             disconnectionReason'.code = disconnectionReason.code]_vars
    /\ [][(disconnectEvents = 1 /\ Len(disconnectionEmits') = Len(disconnectionEmits) + 1) =>
             disconnectionEmits'[Len(disconnectionEmits')] =
                 IF disconnectionReason.code # 0 THEN disconnectionReason
                 ELSE DefaultReason]_vars
    /\ ((connectPromise.status = "resolved" /\ disconnectEvents = 1) ~>
            (state = "Closed" /\ Len(disconnectionEmits) = 1))

(* the transport's disconnection closed the client: the deferred close ran
   and the notification delivered the transport's cause *)
C17_Witness ==
    /\ connectPromise.status = "resolved"
    /\ disconnectEvents = 1
    /\ state = "Closed"
    /\ connectionCloses = 1
    /\ disconnectionEmits = <<CrtErrorFromCode(1)>>
    /\ immediateQueue = <<>>

(* the step delivers the notification that `task` stands for: the event loop
   takes it from the head of the immediate queue *)
DeliveredFromQueue(task) ==
    /\ immediateQueue # <<>>
    /\ Head(immediateQueue) = task
    /\ immediateQueue' = Tail(immediateQueue)

(* C18: no 'disconnection' is delivered in a step in which the body of the
   client's close() runs and no 'ended' in a step in which the body of the
   operation's close() runs; each is delivered by the event loop from the
   immediate queue; and when a 'disconnection' is delivered the client is
   Closed, the registry is detached and every constructed operation is
   Closed. *)
C18_NotificationsDeferred ==
    /\ [][connectionCloses' # connectionCloses =>
             disconnectionEmits' = disconnectionEmits]_vars
    /\ [][\A o \in Ops :
             /\ closeRuns'[o] # closeRuns[o] => endedEmits'[o] = endedEmits[o]
             /\ endedEmits'[o] # endedEmits[o] =>
                    DeliveredFromQueue(Task("emitEnded", o))]_vars
    /\ [][disconnectionEmits' # disconnectionEmits =>
             /\ DeliveredFromQueue(EmitDisconnectionTask)
             /\ state = "Closed"
             /\ ~unclosedOperations.defined
             /\ \A o \in Ops : opState[o] \in {"Unconstructed", "Closed"}]_vars

(* the 'disconnection' owed by a close() that closed the activated
   operation 1 has been delivered; the operation's 'ended' and its stream
   close are still queued *)
C18_Witness ==
    /\ Len(disconnectionEmits) = 1
    /\ opState[1] = "Closed"
    /\ immediateQueue = <<Task("emitEnded", 1), Task("streamClose", 1)>>

(* C19: close() of the transport connection is invoked at most once. *)
C19_ConnectionClosedOnce ==
    connectionCloses <= 1

(* the body of the client's close() ran twice, each time closing the
   connection, around a rejected step of the handshake *)
C19_Witness ==
    /\ connectionCloses = 2
    /\ state = "Closed"
    /\ connectPromise.type \in {"NetworkError", "InternalError"}

(* the operations that were constructed and are not Closed *)
OpenOperations == {o \in Ops : opState[o] \notin {"Unconstructed", "Closed"}}

(* C20: while the registry exists it holds exactly the constructed
   operations that are not Closed, each once; once the client's close() has
   run the registry is detached for good, every constructed operation is
   Closed, and no operation is constructed or registered any more. *)
C20_RegistryInvariant ==
    /\ [](unclosedOperations.defined =>
             /\ SeqToSet(unclosedOperations.ops) = OpenOperations
             /\ Len(unclosedOperations.ops) = Cardinality(OpenOperations))
    /\ []((state = "Closed" \/ connectionCloses >= 1) =>
             /\ ~unclosedOperations.defined
             /\ OpenOperations = {})
    /\ [][(state = "Closed" \/ connectionCloses >= 1) =>
             /\ unclosedOperations' = unclosedOperations
             /\ \A o \in Ops : opState[o] = "Unconstructed" =>
                                   opState'[o] = "Unconstructed"]_vars

(* operation 1 was closed and left the registry, operation 2 is open and
   registered *)
C20_Witness ==
    /\ state = "Connected"
    /\ opState[1] = "Closed"
    /\ opState[2] = "None"
    /\ unclosedOperations = [defined |-> TRUE, ops |-> <<2>>]

(* C21: no operation is ever Closed with emitEndedOnClose still true. *)
C21_NoStrandedEnded ==
    \A o \in Ops : ~(opState[o] = "Closed" /\ emitEndedOnClose[o])

(* operation 1 was closed on the Connected client while its activation was
   in flight; the acknowledgement came afterwards and set the flag, with
   only the stream's close scheduled *)
C21_Witness ==
    /\ state = "Connected"
    /\ opState[1] = "Closed"
    /\ emitEndedOnClose[1]
    /\ activateInFlight[1] = 0
    /\ immediateQueue = <<Task("streamClose", 1)>>

====
